---------------------------- MODULE Spec2Model ----------------------------
(***************************************************************************)
(* Neo4JStorage.get_knowledge_graph and Neo4JStorage._robust_fallback of   *)
(* lightrag/kg/neo4j_impl.py: one call against an unchanged store (Spec),  *)
(* the same call made twice (SpecTwice), two calls at once                 *)
(* (SpecConcurrent).                                                       *)
(*                                                                         *)
(* The store holds NumNodes nodes (one more in SpecDeep), each with a set   *)
(* of labels and possibly no properties, and directed relationships of     *)
(* type DIRECTED.  A node exists when it carries a label.  A label is      *)
(* a sequence of one-character strings, so that CONTAINS is a real         *)
(* substring test.  What the store leaves open (row order, ties of an      *)
(* ORDER BY, which record single() sees first, whether a query fails) is a *)
(* nondeterministic choice of the action that issues the query.            *)
(***************************************************************************)
EXTENDS Integers, Sequences, FiniteSets, TLC

\* ---- bounds of the model
NumNodes == 3
MaxRels == 3
MaxDepth == 2

\* ---- program constant (environment variable MAX_GRAPH_NODES)
MAX_GRAPH_NODES == 2

VARIABLES
    graph,          \* store: the relationships [id, start, end, type]
    labels,         \* store: node -> set of labels
    first,          \* driver: node -> the label list(node.labels)[0] yields
    bare,           \* store: the nodes that carry no property
    node_label,     \* argument of get_knowledge_graph
    max_depth,      \* argument of get_knowledge_graph
    pc,             \* position of the call
    label,          \* local of get_knowledge_graph: node_label.strip('"')
    result,         \* local of get_knowledge_graph: the KnowledgeGraph
    seen_nodes,     \* local of get_knowledge_graph
    seen_edges,     \* local of get_knowledge_graph
    fb,             \* locals of _robust_fallback: result, visited sets
    stack,          \* active traverse() frames, innermost last
    ret,            \* how the call ended: "none" while running
    error,          \* the error kind raised to the caller
    primaryError,   \* the error kind the primary's queries raised
    queries,        \* kinds of query issued so far
    fallbackCalls,  \* arguments of every _robust_fallback invocation
    sessions,       \* store sessions the call holds open
    active,         \* which call is running: 1 or 2
    other           \* arguments and locals of the call that is not running

vars == <<graph, labels, first, bare, node_label, max_depth, pc, label, result,
          seen_nodes, seen_edges, fb, stack, ret, error, primaryError, queries,
          fallbackCalls, sessions, active, other>>

store == <<graph, labels, first, bare>>
args == <<node_label, max_depth>>
calls == <<active, other>>

----------------------------------------------------------------------------
\* ---- the store

\* Node identifiers; a store of Spec uses the first NumNodes of them.
Universe == 1..(NumNodes + 1)

\* The nodes of the store: MATCH (n)
Nodes == {n \in Universe : labels[n] # {}}

RelType == "DIRECTED"

\* One relationship per ordered pair of nodes, self-loops included.
AllRels == {[id |-> (s - 1) * (NumNodes + 1) + t, start |-> s, end |-> t,
             type |-> RelType] : s \in Universe, t \in Universe}

RelsAmong(N) == {r \in AllRels : r.start \in N /\ r.end \in N}

Graphs == {G \in SUBSET RelsAmong(1..NumNodes) : Cardinality(G) <= MaxRels}

BaseLabel(n) ==
    CASE n = 1 -> <<"a">>
      [] n = 2 -> <<"a", "b">>
      [] n = 3 -> <<"c">>
      [] OTHER -> <<"c", "b">>

ExtraLabel == <<"d">>

\* Node 1 may carry ExtraLabel besides its own label.
Labelings == {[n \in Universe |-> IF n > NumNodes THEN {}
                                  ELSE IF n = 1 /\ multi THEN {BaseLabel(n), ExtraLabel}
                                  ELSE {BaseLabel(n)}] :
                multi \in BOOLEAN}

\* list(node.labels)[0] is one of the node's labels
FirstLabels(lab) ==
    {f \in [Universe -> {BaseLabel(n) : n \in Universe} \cup {ExtraLabel}] :
        \A n \in Universe : IF lab[n] = {} THEN f[n] = BaseLabel(n) ELSE f[n] \in lab[n]}

\* The last node may be without properties (upsert_node with empty node_data).
BareSets == {{}, {NumNodes}}

Quote == "\""

NodeLabelInputs == { <<"a">>, <<"a", "b">>, <<Quote, "c", Quote>>, <<"d">>, <<"*">> }

Wildcard == <<"*">>

----------------------------------------------------------------------------
\* ---- strings

RECURSIVE LStrip(_)
LStrip(s) == IF s # <<>> /\ Head(s) = Quote THEN LStrip(Tail(s)) ELSE s

RECURSIVE RStrip(_)
RStrip(s) == IF s # <<>> /\ s[Len(s)] = Quote THEN RStrip(SubSeq(s, 1, Len(s) - 1)) ELSE s

\* str.strip('"')
Strip(s) == RStrip(LStrip(s))

\* Cypher's CONTAINS: m is a contiguous part of l
Contains(l, m) ==
    \E i \in 0..(Len(l) - Len(m)) : SubSeq(l, i + 1, i + Len(m)) = m

Min(a, b) == IF a <= b THEN a ELSE b

\* A set of integers (or of records with a field id) as a list, ascending.
RECURSIVE SortedIds(_)
SortedIds(S) ==
    IF S = {} THEN <<>>
    ELSE LET m == CHOOSE x \in S : \A y \in S : x <= y
         IN <<m>> \o SortedIds(S \ {m})

SeqRange(s) == {s[i] : i \in 1..Len(s)}

Apostrophe == "'"
Backslash == "\\"

\* str.replace("'", "\\'") (line 491): a backslash is put before every
\* single quote, and nothing else changes (a backslash stays single)
RECURSIVE Escape(_)
Escape(s) ==
    IF s = <<>> THEN <<>>
    ELSE IF Head(s) = Apostrophe THEN <<Backslash, Apostrophe>> \o Escape(Tail(s))
    ELSE <<Head(s)>> \o Escape(Tail(s))

\* Cypher reading the text t that the query template puts between two single
\* quotes (lines 516 and 531).  A backslash takes the next character with it:
\* \' is a quote, \\ is a backslash, and any other pair is taken here to stand
\* for itself.  intact: the literal ends at the template's closing quote, that
\* is, no bare quote occurs in t and t does not end in a backslash that would
\* take the closing quote.  value: the string the literal denotes.
RECURSIVE ReadLiteral(_)
ReadLiteral(t) ==
    IF t = <<>> THEN [intact |-> TRUE, value |-> <<>>]
    ELSE IF Head(t) = Apostrophe THEN [intact |-> FALSE, value |-> <<>>]
    ELSE IF Head(t) = Backslash
    THEN IF Len(t) = 1 THEN [intact |-> FALSE, value |-> <<>>]
         ELSE LET rest == ReadLiteral(SubSeq(t, 3, Len(t)))
                  ch == IF t[2] \in {Apostrophe, Backslash} THEN <<t[2]>>
                        ELSE <<Backslash, t[2]>>
              IN [intact |-> rest.intact, value |-> ch \o rest.value]
    ELSE LET rest == ReadLiteral(Tail(t))
         IN [intact |-> rest.intact, value |-> <<Head(t)>> \o rest.value]

\* the text of line 491 as the store reads it inside '...'
LiteralIntact(l) == ReadLiteral(Escape(l)).intact
MatchText(l) == ReadLiteral(Escape(l)).value

----------------------------------------------------------------------------
\* ---- errors of the store

\* capability: a ClientError for a missing procedure (APOC not installed)
\* client:     any other ClientError (syntax error, forbidden, ...)
\* transient, database: Neo4jError classes outside ClientError
ErrKinds == {"capability", "client", "transient", "database"}

\* except neo4jExceptions.ClientError
CaughtAsClientError(k) == k \in {"capability", "client"}

Outcomes == {"ok"} \cup ErrKinds

----------------------------------------------------------------------------
\* ---- the queries of the primary path

\* WHERE any(label IN labels(n) WHERE label CONTAINS '<label>')
Seeds(m) == {n \in Nodes : \E l \in labels[n] : Contains(l, m)}

ValidateFoundAlways(m) == TRUE
\* validate_result.single() is a record
ValidateFound(m) == Seeds(m) # {}

\* apoc.path.subgraphAll(start, {relationshipFilter: '>', minLevel: 0,
\* maxLevel: d, bfs: true}): the nodes within d outgoing hops of s
RECURSIVE Reach(_, _)
Reach(s, d) ==
    IF d <= 0 THEN {s}
    ELSE LET R == Reach(s, d - 1)
         IN R \cup {r.end : r \in {x \in graph : x.start \in R}}

\* ... and all relationships between those nodes
SubgraphRels(N) == {r \in graph : r.start \in N /\ r.end \in N}

\* OPTIONAL MATCH (node)-[r]-() ... count(r); a self-loop is matched once
Degree(n) == Cardinality({r \in graph : r.start = n \/ r.end = n})

\* CASE WHEN id(node) = id(start) THEN 2
\*      WHEN EXISTS((start)-->(node)) OR EXISTS((node)-->(start)) THEN 1 ELSE 0
Priority(s, n) ==
    IF n = s THEN 2
    ELSE IF \E r \in graph : \/ (r.start = s /\ r.end = n)
                             \/ (r.start = n /\ r.end = s)
         THEN 1 ELSE 0

\* the rows <<start, node>> after UNWIND nodes AS node
MainRows(m, d) == UNION {{<<s, n>> : n \in Reach(s, d)} : s \in Seeds(m)}

\* ORDER BY priority DESC, degree DESC: x sorts strictly before y
RowBefore(x, y) ==
    \/ Priority(x[1], x[2]) > Priority(y[1], y[2])
    \/ /\ Priority(x[1], x[2]) = Priority(y[1], y[2])
       /\ Degree(x[2]) > Degree(y[2])

\* LIMIT $max_nodes after the ORDER BY: every prefix the store may keep
MainLimits(R) ==
    {T \in SUBSET R : /\ Cardinality(T) = Min(MAX_GRAPH_NODES, Cardinality(R))
                      /\ \A x \in T, y \in R \ T : ~RowBefore(y, x)}

\* WITH collect(node) AS filtered_nodes, nodes, relationships: one record per
\* (nodes, relationships), that is per start with a surviving row
MainRecord(T, s, d) ==
    LET kept == {row[2] : row \in {x \in T : x[1] = s}}
    IN [nodes |-> kept,
        relationships |-> {r \in SubgraphRels(Reach(s, d)) :
                              r.start \in kept /\ r.end \in kept}]

MainRecords(m, d) ==
    {MainRecord(p[1], p[2][1], d) :
        p \in {q \in MainLimits(MainRows(m, d)) \X MainRows(m, d) : q[2] \in q[1]}}

\* wildcard: WITH n, count(r) AS degree ORDER BY degree DESC LIMIT $max_nodes
WildLimits ==
    {T \in SUBSET Nodes : /\ Cardinality(T) = Min(MAX_GRAPH_NODES, Cardinality(Nodes))
                          /\ \A x \in T, y \in Nodes \ T : Degree(y) <= Degree(x)}

\* MATCH (a)-[r]->(b) WHERE a IN nodes AND b IN nodes
\* RETURN nodes, collect(DISTINCT r): no row when no relationship matches
WildRecords ==
    {[nodes |-> T, relationships |-> SubgraphRels(T)] :
        T \in {X \in WildLimits : SubgraphRels(X) # {}}}

----------------------------------------------------------------------------
\* ---- building the KnowledgeGraph from the record (lines 560-590)

EmptyResult == [nodes |-> <<>>, edges |-> <<>>]

KnowledgeGraphNode(n) == [id |-> n, labels |-> labels[n]]

KnowledgeGraphEdge(r) ==
    [id |-> r.id, type |-> r.type, source |-> r.start, target |-> r.end]

\* for node in record["nodes"]: if node_id not in seen_nodes: append, add
RECURSIVE AddNodes(_, _, _)
AddNodes(list, acc, seen) ==
    IF list = <<>> THEN acc
    ELSE IF Head(list) \in seen THEN AddNodes(Tail(list), acc, seen)
    ELSE AddNodes(Tail(list), Append(acc, KnowledgeGraphNode(Head(list))),
                  seen \cup {Head(list)})

RelById(i) == CHOOSE r \in AllRels : r.id = i

\* for rel in record["relationships"]: if edge_id not in seen_edges: append, add
RECURSIVE AddEdges(_, _, _)
AddEdges(list, acc, seen) ==
    IF list = <<>> THEN acc
    ELSE IF Head(list) \in seen THEN AddEdges(Tail(list), acc, seen)
    ELSE AddEdges(Tail(list), Append(acc, KnowledgeGraphEdge(RelById(Head(list)))),
                  seen \cup {Head(list)})

Materialize(rec) ==
    [nodes |-> AddNodes(SortedIds(rec.nodes), <<>>, {}),
     edges |-> AddEdges(SortedIds({r.id : r \in rec.relationships}), <<>>, {})]

----------------------------------------------------------------------------
\* ---- the call

EmptyFb == [nodes |-> <<>>, edges |-> <<>>, visited_nodes |-> {}, visited_edges |-> {}]

\* a call with arguments (nl, md) that has not started
NotStarted(nl, md) ==
    [node_label |-> nl, max_depth |-> md, pc |-> "start", label |-> <<>>,
     result |-> EmptyResult, seen_nodes |-> {}, seen_edges |-> {},
     fb |-> EmptyFb, stack |-> <<>>, ret |-> "none", error |-> "none",
     primaryError |-> "none", queries |-> {}, fallbackCalls |-> <<>>,
     sessions |-> 0]

\* no second call: a call that is over before it began
NoCall == [NotStarted(<<>>, 0) EXCEPT !.pc = "cancelled"]

\* the locals and the bookkeeping before the call
Fresh ==
    /\ pc = "start"
    /\ label = <<>>
    /\ result = EmptyResult
    /\ seen_nodes = {}
    /\ seen_edges = {}
    /\ fb = EmptyFb
    /\ stack = <<>>
    /\ ret = "none"
    /\ error = "none"
    /\ primaryError = "none"
    /\ queries = {}
    /\ fallbackCalls = <<>>
    /\ sessions = 0
    /\ active = 1

Init ==
    /\ graph \in Graphs
    /\ labels \in Labelings
    /\ first \in FirstLabels(labels)
    /\ bare \in BareSets
    /\ node_label \in NodeLabelInputs
    /\ max_depth \in 0..MaxDepth
    /\ pc = "start"
    /\ label = <<>>
    /\ result = EmptyResult
    /\ seen_nodes = {}
    /\ seen_edges = {}
    /\ fb = EmptyFb
    /\ stack = <<>>
    /\ ret = "none"
    /\ error = "none"
    /\ primaryError = "none"
    /\ queries = {}
    /\ fallbackCalls = <<>>
    /\ sessions = 0
    /\ active = 1
    /\ other = NoCall

\* lines 489-498: strip the quotes, fresh result and seen sets, open the session
Call ==
    /\ pc = "start"
    /\ label' = Strip(node_label)
    /\ result' = EmptyResult
    /\ seen_nodes' = {}
    /\ seen_edges' = {}
    /\ sessions' = sessions + 1
    /\ pc' = IF Strip(node_label) = Wildcard THEN "wildcard" ELSE "validate"
    /\ UNCHANGED <<store, args, fb, stack, ret, error, primaryError, queries,
                   fallbackCalls>>
    /\ UNCHANGED calls

\* A primary query raised error kind k (lines 596-600): a ClientError starts
\* _robust_fallback(label, max_depth) inside the still open session; any other
\* error leaves the async with block, which closes the session, and reaches
\* the caller.
PrimaryRaises(k, q) ==
    /\ primaryError' = k
    /\ queries' = queries \cup {q}
    /\ IF CaughtAsClientError(k)
       THEN /\ pc' = "fallback"
            /\ fallbackCalls' = Append(fallbackCalls, <<label, max_depth>>)
            /\ fb' = EmptyFb
            /\ stack' = <<[label |-> label, depth |-> 0, st |-> "enter", rows |-> {}]>>
            /\ UNCHANGED <<ret, error, sessions>>
       ELSE /\ pc' = "done"
            /\ ret' = "raised"
            /\ error' = k
            /\ sessions' = sessions - 1
            /\ UNCHANGED <<fallbackCalls, fb, stack>>
    /\ UNCHANGED <<store, args, label, result, seen_nodes, seen_edges>>

\* The primary returns `result` (line 525 or 600); the session closes.
PrimaryReturns(res, q) ==
    /\ pc' = "done"
    /\ ret' = "result"
    /\ result' = res
    /\ seen_nodes' = {n.id : n \in SeqRange(res.nodes)}
    /\ seen_edges' = {e.id : e \in SeqRange(res.edges)}
    /\ queries' = queries \cup q
    /\ sessions' = sessions - 1
    /\ UNCHANGED <<store, args, label, fb, stack, error, primaryError, fallbackCalls>>

\* lines 515-525: the validation query; no record means the empty result
RunValidate ==
    /\ pc = "validate"
    /\ \E o \in Outcomes :
         IF o # "ok" THEN PrimaryRaises(o, "validate")
         ELSE IF ~LiteralIntact(label) THEN PrimaryRaises("client", "validate")
         ELSE IF ~ValidateFound(MatchText(label))
         THEN PrimaryReturns(result, {"validate"})
         ELSE /\ pc' = "main"
              /\ queries' = queries \cup {"validate"}
              /\ UNCHANGED <<store, args, label, result, seen_nodes, seen_edges, fb,
                             stack, ret, error, primaryError, fallbackCalls, sessions>>
    /\ UNCHANGED calls

\* lines 528-594: the subgraph query, single(), and the result built from it
RunMain ==
    /\ pc = "main"
    /\ \E o \in Outcomes :
         IF o # "ok" THEN PrimaryRaises(o, "main")
         ELSE \/ /\ MainRecords(MatchText(label), max_depth) = {}
                 /\ PrimaryReturns(result, {"main"})
              \/ \E rec \in MainRecords(MatchText(label), max_depth) :
                   PrimaryReturns(Materialize(rec), {"main"})
    /\ UNCHANGED calls

\* lines 498-512 and 558-594: the wildcard query
RunWildcard ==
    /\ pc = "wildcard"
    /\ \E o \in Outcomes :
         IF o # "ok" THEN PrimaryRaises(o, "wildcard")
         ELSE \/ /\ WildRecords = {}
                 /\ PrimaryReturns(result, {"wildcard"})
              \/ \E rec \in WildRecords :
                   PrimaryReturns(Materialize(rec), {"wildcard"})
    /\ UNCHANGED calls

----------------------------------------------------------------------------
\* ---- the fallback traversal (lines 602-666)

\* MATCH (n:`<label>`) RETURN n
NodesWithLabel(l) == {n \in Nodes : l \in labels[n]}

\* the node a label of the store stands for (no two nodes share a label)
NodeWithLabel(l) == CHOOSE n \in Nodes : l \in labels[n]

\* get_node (lines 215-237): None without a record, else dict(node), which is
\* the empty dict for a node without properties
GetNode(node_id) ==
    LET found == NodesWithLabel(Strip(node_id))
    IN IF found = {} THEN [dict |-> "None"]
       ELSE LET n == CHOOSE x \in found : TRUE
            IN [dict |-> IF n \in bare THEN "empty" ELSE "props", node |-> n]

\* `if not node`: None and the empty dict are both falsy
Falsy(got) == got.dict \in {"None", "empty"}

\* MATCH (a)-[r]-(b) WHERE a:`<label>` OR b:`<label>`: every relationship with
\* an endpoint carrying the label, each matched in both orientations
ScanRels(l) == {r \in graph : l \in labels[r.start] \/ l \in labels[r.end]}

Directions == {"OUTGOING", "INCOMING"}

\* the row of r that binds a to the start node (OUTGOING) or to the end node
RowA(r, dir) == IF dir = "OUTGOING" THEN r.start ELSE r.end
RowB(r, dir) == IF dir = "OUTGOING" THEN r.end ELSE r.start

\* f"{rel.id}_{rel.type}"
EdgeKey(r) == <<r.id, r.type>>

\* lines 645-653: the edge as recorded from the row (a, r, b, direction)
EdgeData(r, dir) ==
    [rel |-> r.id,
     source |-> first[RowA(r, dir)],
     target |-> first[RowB(r, dir)],
     type |-> r.type,
     direction |-> dir]

\* lines 658-662: b's first label when OUTGOING, a's when INCOMING
NextLabel(r, dir) ==
    IF dir = "OUTGOING" THEN first[RowB(r, dir)] ELSE first[RowA(r, dir)]

Top == stack[Len(stack)]
Pop == SubSeq(stack, 1, Len(stack) - 1)

SetTop(f) == [stack EXCEPT ![Len(stack)] = f]

\* line 611 with the bound moved by one: `if current_depth > max_depth + 1`
TooDeepOffByOne(current_depth) == current_depth > max_depth + 1

\* line 611: `if current_depth > max_depth: return`
TooDeep(current_depth) == current_depth > max_depth

\* The sessions one traverse() frame holds in an `async with`: get_node's
\* (line 225) and, inside it, _label_exists' (line 171) during the lookup; the
\* relationship scan's (line 638) during the scan.
HeldBy(frame) ==
    IF frame.st = "lookup" THEN 2 ELSE IF frame.st = "scan" THEN 1 ELSE 0

RECURSIVE HeldByFrames(_)
HeldByFrames(frames) ==
    IF frames = <<>> THEN 0 ELSE HeldBy(Head(frames)) + HeldByFrames(Tail(frames))

\* the scopes as they would be if the scan's session (line 638) were not
\* opened in an `async with` but closed by hand at the end of the scan
ScopedSessionsButScan ==
    1 + HeldByFrames(SelectSeq(stack, LAMBDA frame : frame.st # "scan"))

\* The sessions that the `async with` blocks the call is inside of close when
\* an exception unwinds them: get_knowledge_graph's own (line 496) and those
\* of the traverse() frames.
ScopedSessions == 1 + HeldByFrames(stack)

\* An error inside traverse() is caught nowhere: it unwinds every frame, leaves
\* _robust_fallback (whose locals, the partial result included, are dropped)
\* and the except block of get_knowledge_graph, and every async with on the
\* way closes its session.
FallbackRaises(k, q) ==
    /\ pc' = "done"
    /\ ret' = "raised"
    /\ error' = k
    /\ stack' = <<>>
    /\ fb' = EmptyFb
    /\ sessions' = sessions - ScopedSessions
    /\ queries' = queries \cup {q}
    /\ UNCHANGED <<store, args, label, result, seen_nodes, seen_edges,
                   primaryError, fallbackCalls>>

\* lines 610-615, 225-226, 181, 171: traverse() checks the depth, then calls
\* get_node, which opens its session and, inside it, lets _label_exists open
\* one more
TraverseEnter ==
    /\ pc = "fallback"
    /\ stack # <<>>
    /\ Top.st = "enter"
    /\ IF TooDeep(Top.depth)
       THEN /\ stack' = Pop
            /\ UNCHANGED sessions
       ELSE /\ stack' = SetTop([Top EXCEPT !.st = "lookup"])
            /\ sessions' = sessions + 2
    /\ UNCHANGED <<store, args, pc, label, result, seen_nodes, seen_edges, fb,
                   ret, error, primaryError, queries, fallbackCalls>>
    /\ UNCHANGED calls

\* lines 172-177, 227-237, 616-639: the label check ends and its session
\* closes (an error of it is logged and swallowed, line 175); get_node's query
\* runs and its session closes; then traverse() up to the start of the
\* relationship scan, whose session opens
TraverseLookup ==
    /\ pc = "fallback"
    /\ stack # <<>>
    /\ Top.st = "lookup"
    /\ \E o \in Outcomes :
         IF o # "ok" THEN FallbackRaises(o, "get_node")
         ELSE LET got == GetNode(Top.label)
                  node_id == Top.label
              IN IF Falsy(got) \/ node_id \in fb.visited_nodes
                 THEN /\ stack' = Pop
                      /\ queries' = queries \cup {"get_node"}
                      /\ sessions' = sessions - 2
                      /\ UNCHANGED <<store, args, pc, label, result, seen_nodes,
                                     seen_edges, fb, ret, error, primaryError,
                                     fallbackCalls>>
                 ELSE \E o2 \in Outcomes :
                        IF o2 # "ok" THEN FallbackRaises(o2, "scan")
                        ELSE /\ fb' = [fb EXCEPT
                                  !.visited_nodes = @ \cup {node_id},
                                  !.nodes = Append(@, [node |-> got.node,
                                                       labels |-> <<Top.label>>,
                                                       call |-> active])]
                             /\ stack' = SetTop([Top EXCEPT
                                  !.st = "scan", !.rows = ScanRels(Top.label)])
                             /\ queries' = queries \cup {"get_node", "scan"}
                             /\ sessions' = (sessions - 2) + 1
                             /\ UNCHANGED <<store, args, pc, label, result,
                                            seen_nodes, seen_edges, ret, error,
                                            primaryError, fallbackCalls>>
    /\ UNCHANGED calls

\* lines 640-663: the next row of the scan; a relationship not yet visited is
\* recorded and traverse() is entered for the next label one level deeper
TraverseRow ==
    /\ pc = "fallback"
    /\ stack # <<>>
    /\ Top.st = "scan"
    /\ \E r \in Top.rows, dir \in Directions :
         /\ (r.start = r.end => dir = "OUTGOING")
         /\ IF EdgeKey(r) \in fb.visited_edges
            THEN /\ stack' = SetTop([Top EXCEPT !.rows = @ \ {r}])
                 /\ UNCHANGED fb
            ELSE /\ fb' = [fb EXCEPT
                      !.edges = Append(@, EdgeData(r, dir) @@ [call |-> active]),
                      !.visited_edges = @ \cup {EdgeKey(r)}]
                 /\ stack' = Append(SetTop([Top EXCEPT !.rows = @ \ {r}]),
                                    [label |-> NextLabel(r, dir), depth |-> Top.depth + 1,
                                     st |-> "enter", rows |-> {}])
    /\ UNCHANGED <<store, args, pc, label, result, seen_nodes, seen_edges, ret, error,
                   primaryError, queries, fallbackCalls, sessions>>
    /\ UNCHANGED calls

\* the scan as it would end if its session were not closed when traverse()
\* returns
TraverseReturnKeepsSession ==
    /\ pc = "fallback"
    /\ stack # <<>>
    /\ Top.st = "scan"
    /\ Top.rows = {}
    /\ stack' = Pop
    /\ UNCHANGED <<store, args, pc, label, result, seen_nodes, seen_edges, fb, ret,
                   error, primaryError, queries, fallbackCalls, sessions>>
    /\ UNCHANGED calls

\* the scan is exhausted: its session closes and traverse() returns
TraverseReturn ==
    /\ pc = "fallback"
    /\ stack # <<>>
    /\ Top.st = "scan"
    /\ Top.rows = {}
    /\ stack' = Pop
    /\ sessions' = sessions - 1
    /\ UNCHANGED <<store, args, pc, label, result, seen_nodes, seen_edges, fb, ret,
                   error, primaryError, queries, fallbackCalls>>
    /\ UNCHANGED calls

\* lines 665-666 and 598: traverse(label, 0) is over, _robust_fallback returns
\* its result, get_knowledge_graph returns it and its session closes
FallbackReturns ==
    /\ pc = "fallback"
    /\ stack = <<>>
    /\ pc' = "done"
    /\ ret' = "fallback"
    /\ sessions' = sessions - 1
    /\ UNCHANGED <<store, args, label, result, seen_nodes, seen_edges, fb, stack, error,
                   primaryError, queries, fallbackCalls>>
    /\ UNCHANGED calls

\* The task running the call is cancelled while it waits on the store:
\* CancelledError unwinds the call like an error that nothing catches (it is
\* no ClientError, and no Exception for line 175), so every `async with` the
\* call is inside of closes its session and the locals are dropped.
Cancel ==
    /\ pc \in {"validate", "main", "wildcard", "fallback"}
    /\ pc' = "cancelled"
    /\ sessions' = sessions - ScopedSessions
    /\ stack' = <<>>
    /\ fb' = EmptyFb
    /\ result' = EmptyResult
    /\ seen_nodes' = {}
    /\ seen_edges' = {}
    /\ UNCHANGED <<store, args, label, ret, error, primaryError, queries,
                   fallbackCalls>>
    /\ UNCHANGED calls

\* ---- a second call on the same instance

\* the arguments and locals of the call that is running, as one value
Saved ==
    [node_label |-> node_label, max_depth |-> max_depth, pc |-> pc, label |-> label,
     result |-> result, seen_nodes |-> seen_nodes, seen_edges |-> seen_edges,
     fb |-> fb, stack |-> stack, ret |-> ret, error |-> error,
     primaryError |-> primaryError, queries |-> queries,
     fallbackCalls |-> fallbackCalls, sessions |-> sessions]

\* the switch as it would be if the locals of _robust_fallback (lines 606-608)
\* were attributes of the instance, which every call shares
SwitchSharingVisited ==
    /\ other.pc \notin {"done", "cancelled"}
    /\ active' = 3 - active
    /\ other' = [Saved EXCEPT !.fb = other.fb]
    /\ node_label' = other.node_label
    /\ max_depth' = other.max_depth
    /\ pc' = other.pc
    /\ label' = other.label
    /\ result' = other.result
    /\ seen_nodes' = other.seen_nodes
    /\ seen_edges' = other.seen_edges
    /\ stack' = other.stack
    /\ ret' = other.ret
    /\ error' = other.error
    /\ primaryError' = other.primaryError
    /\ queries' = other.queries
    /\ fallbackCalls' = other.fallbackCalls
    /\ sessions' = other.sessions
    /\ UNCHANGED <<store, fb>>

\* The event loop leaves the running call at an await (or before its start, or
\* after its end) and resumes the other one.  The arguments and locals of a
\* call (lines 489-494, 606-608) live in its own frames: they leave with it
\* and come back with it.
Switch ==
    /\ other.pc \notin {"done", "cancelled"}
    /\ active' = 3 - active
    /\ other' = Saved
    /\ node_label' = other.node_label
    /\ max_depth' = other.max_depth
    /\ pc' = other.pc
    /\ label' = other.label
    /\ result' = other.result
    /\ seen_nodes' = other.seen_nodes
    /\ seen_edges' = other.seen_edges
    /\ fb' = other.fb
    /\ stack' = other.stack
    /\ ret' = other.ret
    /\ error' = other.error
    /\ primaryError' = other.primaryError
    /\ queries' = other.queries
    /\ fallbackCalls' = other.fallbackCalls
    /\ sessions' = other.sessions
    /\ UNCHANGED store

\* the second call is made when the first has returned
Again ==
    /\ pc = "done"
    /\ other.pc = "start"
    /\ Switch

Next ==
    \/ Call
    \/ RunValidate
    \/ RunMain
    \/ RunWildcard
    \/ TraverseEnter
    \/ TraverseLookup
    \/ TraverseRow
    \/ TraverseReturn
    \/ FallbackReturns
    \/ Cancel

Spec == Init /\ [][Next]_vars

\* The call up to the point where the primary returns, raises, or hands over
\* to _robust_fallback (whose traversal is then not followed).
NextPrimary ==
    \/ Call
    \/ RunValidate
    \/ RunMain
    \/ RunWildcard

SpecPrimary == Init /\ [][NextPrimary]_vars

----------------------------------------------------------------------------
\* ---- what the call returned

Done == pc = "done"

TypeOK ==
    /\ pc \in {"start", "validate", "main", "wildcard", "fallback", "done",
               "cancelled"}
    /\ ret \in {"none", "result", "fallback", "raised"}
    /\ sessions \in Nat
    /\ (pc = "done") = (ret # "none")

----------------------------------------------------------------------------
\* ---- the returned value, read the same way on both paths

\* the store node each entry of the returned node list stands for
ReturnedNodes ==
    IF ret = "result" THEN [i \in 1..Len(result.nodes) |-> result.nodes[i].id]
    ELSE IF ret = "fallback" THEN [i \in 1..Len(fb.nodes) |-> fb.nodes[i].node]
    ELSE <<>>

\* the store relationship each entry of the returned edge list stands for
ReturnedRels ==
    IF ret = "result" THEN [i \in 1..Len(result.edges) |-> result.edges[i].id]
    ELSE IF ret = "fallback" THEN [i \in 1..Len(fb.edges) |-> fb.edges[i].rel]
    ELSE <<>>

\* <<source, target>> of each returned edge, as the store nodes they denote
\* (the primary reports node identifiers, the fallback reports labels)
ReturnedEnds ==
    IF ret = "result"
    THEN [i \in 1..Len(result.edges) |->
            <<result.edges[i].source, result.edges[i].target>>]
    ELSE IF ret = "fallback"
    THEN [i \in 1..Len(fb.edges) |->
            <<NodeWithLabel(fb.edges[i].source), NodeWithLabel(fb.edges[i].target)>>]
    ELSE <<>>

Returned == Done /\ ret \in {"result", "fallback"}

NoRepeat(s) == \A i, j \in 1..Len(s) : i # j => s[i] # s[j]

Occurrences(s, x) == Cardinality({i \in 1..Len(s) : s[i] = x})

----------------------------------------------------------------------------
\* ---- claims

\* C1: the returned result holds no store node twice and no relationship
\* twice, on the primary path and on the fallback path.
C1_NoDuplicates ==
    Returned => NoRepeat(ReturnedNodes) /\ NoRepeat(ReturnedRels)

\* C2: the source and the target of every returned edge denote nodes of the
\* same result's node list.
C2_EdgesInsideNodeSet ==
    Returned =>
        \A i \in 1..Len(ReturnedEnds) :
            /\ ReturnedEnds[i][1] \in SeqRange(ReturnedNodes)
            /\ ReturnedEnds[i][2] \in SeqRange(ReturnedNodes)

\* C3: a returned result never holds more than MAX_GRAPH_NODES nodes.
C3_NodeCap ==
    Returned => Len(ReturnedNodes) <= MAX_GRAPH_NODES

ReachableFromSeeds == UNION {Reach(s, max_depth) : s \in Seeds(label)}

\* C4: non-wildcard primary path, at most MAX_GRAPH_NODES seeds and more than
\* MAX_GRAPH_NODES nodes reachable: every seed is in the returned node list.
C4_AllSeedsKept ==
    ( /\ Done /\ ret = "result" /\ "main" \in queries
      /\ Cardinality(Seeds(label)) <= MAX_GRAPH_NODES
      /\ Cardinality(ReachableFromSeeds) > MAX_GRAPH_NODES )
    => Seeds(label) \subseteq SeqRange(ReturnedNodes)

\* the store's relationships are exactly c[1] -> c[2] -> ... -> c[Len(c)]
IsChain(c) ==
    /\ \A i, j \in 1..Len(c) : i # j => c[i] # c[j]
    /\ graph = {r \in AllRels : \E i \in 1..(Len(c) - 1) :
                    r.start = c[i] /\ r.end = c[i + 1]}

Chains == {c \in UNION {[1..k -> Nodes] : k \in 2..NumNodes} : IsChain(c)}

\* C5: on a chain of single-label nodes matched at its head with max_depth at
\* least its length, either path returns exactly the chain's nodes and exactly
\* its edges, each with source c[i] and target c[i+1].  (Every node has
\* properties; the primary is held to this only when the chain fits under
\* MAX_GRAPH_NODES.)
C5_ChainEquivalence ==
    (Returned /\ bare = {}) =>
    \A c \in Chains :
        ( /\ \A i \in 1..Len(c) : Cardinality(labels[c[i]]) = 1
          /\ label \in labels[c[1]]
          /\ Seeds(label) = {c[1]}
          /\ max_depth >= Len(c) - 1
          /\ (ret = "result" => "main" \in queries /\ Len(c) <= MAX_GRAPH_NODES) )
        => /\ SeqRange(ReturnedNodes) = SeqRange(c)
           /\ SeqRange(ReturnedEnds) = {<<c[i], c[i + 1]>> : i \in 1..(Len(c) - 1)}
           /\ Len(ReturnedEnds) = Len(c) - 1

\* every node within NumNodes directed hops of n
Descendants(n) == Reach(n, NumNodes)

\* n lies on a directed cycle through the node the fallback starts at
OnSeedCycle(n) ==
    \E s \in NodesWithLabel(label) :
       /\ \E r \in graph : r.start = n /\ s \in Descendants(r.end)
       /\ n \in Descendants(s)

\* C6: the fallback traversal ends, and each node of a cycle through its start
\* node is in its result exactly once (every node has properties, and the
\* depth bound is large enough to go round the cycle).
C6_CycleNodesOnce ==
    ( /\ Done /\ ret = "fallback"
      /\ bare = {}
      /\ max_depth >= NumNodes - 1 )
    => \A n \in Nodes : OnSeedCycle(n) => Occurrences(ReturnedNodes, n) = 1

\* C7: no label contains the (non-wildcard) match string and the validation
\* query answers: the call returns the empty result, raises nothing, never
\* issues the main query and never starts the fallback.
C7_NoMatchEmpty ==
    ( /\ Done
      /\ label # Wildcard
      /\ Seeds(label) = {}
      /\ primaryError = "none" )
    => /\ ret = "result"
       /\ result = EmptyResult
       /\ error = "none"
       /\ "main" \notin queries
       /\ fallbackCalls = <<>>

\* a call with no matching label whose validation query answered
C7_Witness ==
    /\ Done
    /\ label # Wildcard
    /\ Seeds(label) = {}
    /\ primaryError = "none"
    /\ "validate" \in queries
    /\ ret = "result"

\* C8: the fallback starts only for a capability-class error of the validation
\* or main query; any other error of those queries reaches the caller and the
\* fallback never runs.
C8_FallbackOnlyOnCapability ==
    /\ (fallbackCalls # <<>> => primaryError = "capability")
    /\ ( (Done /\ primaryError \notin {"none", "capability"})
         => ret = "raised" /\ error = primaryError /\ fallbackCalls = <<>> )

\* C9: after a capability-class error of the primary the fallback has run
\* exactly once with the stripped label and the same max_depth, the call
\* returns the fallback's result, and the capability error is not raised.
C9_CapabilityFallsBack ==
    (Done /\ primaryError = "capability")
    => /\ fallbackCalls = << <<Strip(node_label), max_depth>> >>
       /\ ret = "fallback"
       /\ error = "none"

\* C10: a store error inside the fallback traversal never leaves the fallback:
\* the call still returns the fallback's (partial) result.
C10_FallbackErrorsIsolated ==
    (Done /\ fallbackCalls # <<>>) => ret = "fallback" /\ error = "none"


----------------------------------------------------------------------------
\* ---- the call on stores of fewer relationships, one label per node

SessionGraphs == {G \in Graphs : Cardinality(G) < MaxRels}

SessionInputs == {<<"a">>, <<"*">>}

InitSessions ==
    /\ graph \in SessionGraphs
    /\ labels = [n \in Universe |-> IF n > NumNodes THEN {} ELSE {BaseLabel(n)}]
    /\ first = [n \in Universe |-> BaseLabel(n)]
    /\ bare \in BareSets
    /\ node_label \in SessionInputs
    /\ max_depth \in 0..MaxDepth
    /\ Fresh
    /\ other = NoCall

\* every step of Next, from the smaller set of initial states
NextSessions ==
    \/ Call
    \/ RunValidate
    \/ RunMain
    \/ RunWildcard
    \/ TraverseEnter
    \/ TraverseLookup
    \/ TraverseRow
    \/ TraverseReturn
    \/ FallbackReturns
    \/ Cancel

SpecSessions == InitSessions /\ [][NextSessions]_vars

----------------------------------------------------------------------------
\* ---- sessions

\* the call is over: it returned, raised, or was cancelled
Ended == pc \in {"done", "cancelled"}

\* C11: however the call ends (a result, the empty result, the fallback's
\* result, a store error raised by a primary query or at any depth of the
\* fallback, a cancellation), every session it opened has been closed.
C11_SessionsReleased == Ended => sessions = 0

\* a call cancelled inside the fallback after a relationship scan was opened
C11_Witness ==
    /\ pc = "cancelled"
    /\ fallbackCalls # <<>>
    /\ "scan" \in queries
    /\ sessions = 0

\* C20: the call never holds more than max_depth + 3 sessions open (its own,
\* one scan session per active traverse() level, and the two of a node lookup
\* with its label check), and never more than 1 before the fallback starts.
C20_SessionBound ==
    /\ sessions <= max_depth + 3
    /\ (fallbackCalls = <<>> => sessions <= 1)

\* a node lookup at the deepest level, below max_depth open scans
C20_Witness ==
    /\ max_depth >= 1
    /\ sessions = max_depth + 3
    /\ Top.st = "lookup"

----------------------------------------------------------------------------
\* ---- the depth bound of the fallback

\* the nodes within d relationships of n, whatever their direction
RECURSIVE Near(_, _)
Near(n, d) ==
    IF d = 0 THEN {n}
    ELSE LET prev == Near(n, d - 1)
         IN prev \cup {r.end : r \in {x \in graph : x.start \in prev}}
                 \cup {r.start : r \in {x \in graph : x.end \in prev}}

\* C18: every node the fallback has recorded is within max_depth relationships
\* of the seed node, and no traverse() step deeper than max_depth gets as far
\* as the node lookup or the relationship scan.
C18_DepthBounded ==
    /\ \A i \in 1..Len(stack) :
          stack[i].st \in {"lookup", "scan"} => stack[i].depth <= max_depth
    /\ \A i \in 1..Len(fb.nodes) :
          \E s \in NodesWithLabel(label) : fb.nodes[i].node \in Near(s, max_depth)

\* a step one level too deep is about to be refused, two nodes recorded
C18_Witness ==
    /\ pc = "fallback"
    /\ stack # <<>>
    /\ Top.st = "enter"
    /\ Top.depth = max_depth + 1
    /\ Len(fb.nodes) >= 2


----------------------------------------------------------------------------
\* ---- match strings with quotes and backslashes

MaxLen == 2

EscapeAlphabet == {"a", Apostrophe, Backslash}

\* the strings of 1..MaxLen characters over the alphabet
EscapeInputs == UNION {[1..k -> EscapeAlphabet] : k \in 1..MaxLen}

InitEscape ==
    /\ graph \in Graphs
    /\ labels \in Labelings
    /\ first \in FirstLabels(labels)
    /\ bare = {}
    /\ node_label \in EscapeInputs
    /\ max_depth \in 0..MaxDepth
    /\ Fresh
    /\ other = NoCall

\* the non-wildcard primary up to its return, its error, or the hand-over
NextEscape ==
    \/ Call
    \/ RunValidate
    \/ RunMain

SpecEscape == InitEscape /\ [][NextEscape]_vars

\* C14: whatever the match string, quotes and backslashes included, the text
\* put between the single quotes of the validation and the main query has no
\* quote that ends the literal (nor a backslash that takes the closing quote),
\* and the literal denotes the match string itself.
C14_EscapedLiteral ==
    pc \in {"validate", "main"}
    => /\ ReadLiteral(Escape(label)).intact
       /\ ReadLiteral(Escape(label)).value = label


----------------------------------------------------------------------------
\* ---- the same call made twice

InitTwice ==
    /\ graph \in Graphs
    /\ labels \in Labelings
    /\ first \in FirstLabels(labels)
    /\ bare \in BareSets
    /\ node_label \in NodeLabelInputs
    /\ max_depth \in 0..MaxDepth
    /\ Fresh
    /\ other = NotStarted(node_label, max_depth)

\* two calls of the primary, one after the other
NextTwice ==
    \/ Call
    \/ RunValidate
    \/ RunMain
    \/ RunWildcard
    \/ Again

SpecTwice == InitTwice /\ [][NextTwice]_vars

\* the node and relationship identifiers of a KnowledgeGraph
ResultNodes(res) == {res.nodes[i].id : i \in 1..Len(res.nodes)}
ResultEdges(res) == {res.edges[i].id : i \in 1..Len(res.edges)}

\* C12: two calls with the same arguments on the unchanged store return the
\* same set of nodes and the same set of edges, wildcard or not, also when
\* more than MAX_GRAPH_NODES nodes are candidates and some of them tie.
C12_SameResultTwice ==
    ( /\ active = 2
      /\ pc = "done"
      /\ ret = "result"
      /\ other.ret = "result"
      /\ other.node_label = node_label
      /\ other.max_depth = max_depth )
    => /\ ResultNodes(result) = ResultNodes(other.result)
       /\ ResultEdges(result) = ResultEdges(other.result)


----------------------------------------------------------------------------
\* ---- the wildcard call

\* x comes before y by total degree, the smaller identifier first in a tie
RankBefore(x, y) ==
    \/ Degree(x) > Degree(y)
    \/ Degree(x) = Degree(y) /\ x < y

\* the min(MAX_GRAPH_NODES, number of nodes) first nodes of that order
TopByDegree ==
    {n \in Nodes : Cardinality({m \in Nodes : RankBefore(m, n)}) < MAX_GRAPH_NODES}

\* C13: a wildcard call returns exactly the min(MAX_GRAPH_NODES, number of
\* nodes) nodes of highest total degree, ties going to the smaller identifier,
\* and exactly the relationships with both endpoints among them, whether or
\* not the store has relationships among those nodes.
C13_WildcardExact ==
    (Done /\ ret = "result" /\ label = Wildcard)
    => /\ SeqRange(ReturnedNodes) = TopByDegree
       /\ SeqRange(ReturnedRels) = {r.id : r \in SubgraphRels(TopByDegree)}


----------------------------------------------------------------------------
\* ---- which nodes the node cap keeps

\* the priority of a collected node: 2 for a seed, 1 for a node that is no
\* seed and is linked to a seed in either direction, 0 otherwise
SeedPriority(n) ==
    IF n \in Seeds(label) THEN 2
    ELSE IF \E s \in Seeds(label) : Priority(s, n) = 1 THEN 1
    ELSE 0

\* x has a strictly greater (priority, degree) than y
RanksAbove(x, y) ==
    \/ SeedPriority(x) > SeedPriority(y)
    \/ SeedPriority(x) = SeedPriority(y) /\ Degree(x) > Degree(y)

\* C16: non-wildcard primary path with more than MAX_GRAPH_NODES nodes
\* collected: the kept nodes are a prefix of the order (priority descending,
\* degree descending), that is, no dropped node has a strictly greater
\* (priority, degree) than a kept node.
C16_KeptArePrefix ==
    ( /\ Done /\ ret = "result" /\ "main" \in queries
      /\ Cardinality(ReachableFromSeeds) > MAX_GRAPH_NODES )
    => \A k \in SeqRange(ReturnedNodes) :
         \A d \in ReachableFromSeeds \ SeqRange(ReturnedNodes) : ~RanksAbove(d, k)


----------------------------------------------------------------------------
\* ---- where the fallback goes next

\* C17: from a visited node the traversal follows each relationship not yet
\* visited, whatever its direction, to the other endpoint: the frame entered
\* one level deeper stands for the neighbour, never for the node it was
\* entered from (unless the relationship is a self-loop); so a node whose only
\* link is a relationship pointing into the seed node is in the result when
\* max_depth is at least 1.
C17_RecursesIntoNeighbour ==
    /\ \A i \in 2..Len(stack) :
         \A n \in NodesWithLabel(stack[i].label) :
            \/ stack[i - 1].label \notin labels[n]
            \/ \E r \in graph : r.start = n /\ r.end = n
    /\ (Done /\ ret = "fallback" /\ bare = {} /\ max_depth >= 1)
       => \A r \in graph :
            r.end \in NodesWithLabel(label) => r.start \in SeqRange(ReturnedNodes)


----------------------------------------------------------------------------
\* ---- stores with one more node: long and short paths to the same node

\* NumNodes + 1 nodes with one label each, all with properties
DeepLabels == [n \in Universe |-> {BaseLabel(n)}]

\* MaxRels + 1 relationships, each from a smaller to a greater identifier
DeepGraphs ==
    {G \in SUBSET {r \in AllRels : r.start < r.end} : Cardinality(G) = MaxRels + 1}

InitDeep ==
    /\ graph \in DeepGraphs
    /\ labels = DeepLabels
    /\ first = [n \in Universe |-> BaseLabel(n)]
    /\ bare = {}
    /\ node_label = <<"a">>
    /\ max_depth \in 0..MaxDepth
    /\ Fresh
    /\ other = NoCall

\* the call when the validation query hands over to the fallback
NextDeep ==
    \/ Call
    \/ RunValidate
    \/ TraverseEnter
    \/ TraverseLookup
    \/ TraverseRow
    \/ TraverseReturn
    \/ FallbackReturns

SpecDeep == InitDeep /\ [][NextDeep]_vars

\* C19: the fallback's result holds every node that a directed path of at most
\* max_depth relationships reaches from the seed node (the nodes the primary's
\* breadth-first expansion collects from that seed), whatever the order of the
\* scan rows, also when a node has both a longer and a shorter path to it.
C19_FallbackCoversReach ==
    (Done /\ ret = "fallback")
    => \A s \in NodesWithLabel(label) :
         Reach(s, max_depth) \subseteq SeqRange(ReturnedNodes)


----------------------------------------------------------------------------
\* ---- two calls at once

\* stores with at most one relationship, one label per node, all with
\* properties
ConcurrentGraphs == {G \in Graphs : Cardinality(G) <= 1}

ConcurrentInputs == {<<"a">>, <<"c">>, <<"*">>}

InitConcurrent ==
    /\ graph \in ConcurrentGraphs
    /\ labels = [n \in Universe |-> IF n > NumNodes THEN {} ELSE {BaseLabel(n)}]
    /\ first = [n \in Universe |-> BaseLabel(n)]
    /\ bare = {}
    /\ node_label \in ConcurrentInputs
    /\ max_depth \in 0..MaxDepth
    /\ Fresh
    /\ \E nl \in ConcurrentInputs : other = NotStarted(nl, max_depth)

\* two calls on one event loop: each step is a step of the running call, or
\* the loop resumes the other call
NextConcurrent ==
    \/ Call
    \/ RunValidate
    \/ RunMain
    \/ RunWildcard
    \/ TraverseEnter
    \/ TraverseLookup
    \/ TraverseRow
    \/ TraverseReturn
    \/ FallbackReturns
    \/ Switch

SpecConcurrent == InitConcurrent /\ [][NextConcurrent]_vars

\* the results the primary can return for (l, d) on this store when the call
\* runs alone
AloneResults(l, d) ==
    IF l = Wildcard
    THEN IF WildRecords = {} THEN {EmptyResult}
         ELSE {Materialize(rec) : rec \in WildRecords}
    ELSE IF ~LiteralIntact(l) THEN {}
    ELSE IF ~ValidateFound(MatchText(l)) \/ MainRecords(MatchText(l), d) = {}
    THEN {EmptyResult}
    ELSE {Materialize(rec) : rec \in MainRecords(MatchText(l), d)}

\* every entry of the fallback locals f was added by call c, and the visited
\* sets hold the keys of those entries and nothing else
AddedBy(f, c) ==
    /\ \A i \in 1..Len(f.nodes) : f.nodes[i].call = c
    /\ \A i \in 1..Len(f.edges) : f.edges[i].call = c
    /\ f.visited_nodes = {f.nodes[i].labels[1] : i \in 1..Len(f.nodes)}
    /\ f.visited_edges = {<<f.edges[i].rel, f.edges[i].type>> : i \in 1..Len(f.edges)}

============================================================================
